---- MODULE Spec2Model ----
(***************************************************************************)
(* Model of the task manager of src/App.tsx: the task collection held by   *)
(* the App component, its lifecycle handlers, the AsyncStorage mirror,     *)
(* the notification batches handed to Notifee and the statistics screen.   *)
(*                                                                         *)
(* Time is in epoch milliseconds, as Date.getTime() returns it.  The       *)
(* local time zone is taken to be UTC, so a calendar day is a multiple of  *)
(* MsPerDay.  The wall clock read by `new Date()` is not monotonic: each   *)
(* handler reads one value of Clock.                                       *)
(***************************************************************************)
EXTENDS Integers, Sequences, FiniteSets, TLC

VARIABLES
    tasks,          \* useState<Task[]>            (App.tsx:342)
    currentScreen,  \* useState<string>            (App.tsx:343)
    selectedTask,   \* useState<Task | null>       (App.tsx:344), <<>> or <<task>>
    initPc,         \* position of initializeNotifications / loadTasks
    store,          \* value kept by AsyncStorage under the key 'tasks'
    queue,          \* AsyncStorage operations dispatched and not yet executed
                    \* (the native module runs them one at a time, in order)
    loadResp,       \* storedTasks: the outcome of the getItem loadTasks awaits
    alerts,         \* the Alert.alert messages raised by the last step
    notifications,  \* the batches of Notifee.createTriggerNotification calls
                    \* started by the last step
    stats,          \* what the Stats screen last rendered
    ops,            \* number of handler submissions so far
    deleted         \* history: the ids deleteTask has been applied to

vars == <<tasks, currentScreen, selectedTask, initPc, store, queue, loadResp,
          alerts, notifications, stats, ops, deleted>>

----------------------------------------------------------------------------
(* Bounds of the model *)

MaxOps == 2
MaxTasks == 3

(* Time *)

MsPerHour == 3600000
MsPerDay == 86400000

Day(n) == n * MsPerDay

\* readings of the wall clock: 2025-01-01 00:00 and 2025-01-04 09:00, with
\* day 1 standing for 2025-01-01
Clock == {Day(1), Day(4) + 9 * MsPerHour}

\* the (deadline, safe date) pairs the date pickers of the form deliver
FormDates == {<<Day(10), Day(5)>>, <<Day(1), Day(5)>>}

Names == {"", "Write report"}
Descriptions == {"", "d"}

undefined == -1

----------------------------------------------------------------------------
(* Clock / DateMath *)

\* date-fns differenceInDays: full days between the two dates, truncated
\* toward zero
differenceInDays(dateLeft, dateRight) ==
    LET d == dateLeft - dateRight
    IN  IF d >= 0 THEN d \div MsPerDay ELSE -((-d) \div MsPerDay)

\* date-fns isAfter
isAfter(date, dateToCompare) == date > dateToCompare

\* Math.ceil applied to the integer differenceInDays returns
MathCeil(n) == n

getRemainingDays(deadline, currentDate) ==
    MathCeil(differenceInDays(deadline, currentDate))

\* new Date() followed by setHours(hour, 0, 0, 0), then getTime()
setHours(currentDate, hour) ==
    (currentDate - (currentDate % MsPerDay)) + hour * MsPerHour

----------------------------------------------------------------------------
(* Notification scheduling *)

scheduleTimes == <<8, 12, 18>>

Request(title, body, task, daysLeft, timestamp) ==
    [title |-> title, body |-> body, name |-> task.name,
     daysLeft |-> daysLeft, timestamp |-> timestamp]

\* the createTriggerNotification calls of one batch, in program order
ScheduleRequests(task, currentDate) ==
    LET daysLeft == getRemainingDays(task.deadlineDate, currentDate)
        reminders ==
            IF daysLeft > 0
            THEN [i \in 1..Len(scheduleTimes) |->
                    Request("Task Reminder", "is due in", task, daysLeft,
                            setHours(currentDate, scheduleTimes[i]))]
            ELSE <<>>
    IN  reminders
        \o <<Request("Task Reminder", "is due today", task, daysLeft,
                     task.safeDate)>>
        \o <<Request("Task Deadline Reminder", "is due soon", task, daysLeft,
                     task.deadlineDate)>>

\* One run of scheduleNotifications.  Each call is awaited; the platform
\* rejects call number rejectAt (0: none is rejected).  A rejected await
\* throws out of the async function, so the later calls are never made.
scheduleNotifications(task, currentDate, rejectAt) ==
    LET reqs == ScheduleRequests(task, currentDate)
        rejected == rejectAt \in 1..Len(reqs)
    IN  [task |-> task, now |-> currentDate,
         calls |-> IF rejected THEN SubSeq(reqs, 1, rejectAt) ELSE reqs,
         rejected |-> rejected]

\* the calls of a batch the platform may reject (0: none)
RejectPoints == 0..5

\* the outcomes of the platform drawn by the handlers: every call resolves,
\* or the first one is rejected
HandlerRejectPoints == {0, 1}

----------------------------------------------------------------------------
(* Statistics *)

NoBuckets == [beforeSafeDate |-> 0, onSafeDate |-> 0, onDeadline |-> 0,
              afterDeadline |-> 0]

\* the chain ending in a plain else: whatever is on neither day counts as
\* completed after the deadline
CountCompletedCatchAll(acc, task) ==
    IF task.completionDate # undefined
    THEN IF task.completionDate < task.safeDate
         THEN [acc EXCEPT !.beforeSafeDate = @ + 1]
         ELSE IF differenceInDays(task.completionDate, task.safeDate) = 0
         THEN [acc EXCEPT !.onSafeDate = @ + 1]
         ELSE IF differenceInDays(task.completionDate, task.deadlineDate) = 0
         THEN [acc EXCEPT !.onDeadline = @ + 1]
         ELSE [acc EXCEPT !.afterDeadline = @ + 1]
    ELSE acc

\* the chain with the deadline test moved in front of the safe-date test
CountCompletedDeadlineFirst(acc, task) ==
    IF task.completionDate # undefined
    THEN IF task.completionDate < task.safeDate
         THEN [acc EXCEPT !.beforeSafeDate = @ + 1]
         ELSE IF differenceInDays(task.completionDate, task.deadlineDate) = 0
         THEN [acc EXCEPT !.onDeadline = @ + 1]
         ELSE IF differenceInDays(task.completionDate, task.safeDate) = 0
         THEN [acc EXCEPT !.onSafeDate = @ + 1]
         ELSE IF isAfter(task.completionDate, task.deadlineDate)
         THEN [acc EXCEPT !.afterDeadline = @ + 1]
         ELSE acc
    ELSE acc

\* body of completedTasks.forEach: the if / else-if chain on one task
CountCompleted(acc, task) ==
    IF task.completionDate # undefined
    THEN IF task.completionDate < task.safeDate
         THEN [acc EXCEPT !.beforeSafeDate = @ + 1]
         ELSE IF differenceInDays(task.completionDate, task.safeDate) = 0
         THEN [acc EXCEPT !.onSafeDate = @ + 1]
         ELSE IF differenceInDays(task.completionDate, task.deadlineDate) = 0
         THEN [acc EXCEPT !.onDeadline = @ + 1]
         ELSE IF isAfter(task.completionDate, task.deadlineDate)
         THEN [acc EXCEPT !.afterDeadline = @ + 1]
         ELSE acc
    ELSE acc

\* completedTasks.forEach(...) with the four counters
RECURSIVE ForEachCompleted(_, _)
ForEachCompleted(ts, acc) ==
    IF ts = <<>> THEN acc
    ELSE ForEachCompleted(Tail(ts), CountCompleted(acc, Head(ts)))

\* tasks.forEach(...) counting the overdue, incomplete tasks
RECURSIVE ForEachIncomplete(_, _, _)
ForEachIncomplete(ts, currentDate, n) ==
    IF ts = <<>> THEN n
    ELSE ForEachIncomplete(Tail(ts), currentDate,
            IF ~Head(ts).completed /\ isAfter(currentDate, Head(ts).deadlineDate)
            THEN n + 1 ELSE n)

\* getTaskStats dividing without the test on totalTasks
getTaskStatsUnguarded(ts, currentDate) ==
    LET IsCompleted(task) == task.completed
        completedTasks == SelectSeq(ts, IsCompleted)
        totalTasks == Len(ts)
        completedCount == Len(completedTasks)
        buckets == ForEachCompleted(completedTasks, NoBuckets)
    IN  [totalTasks |-> totalTasks,
         completedCount |-> completedCount,
         completionRate |-> <<completedCount * 100, totalTasks>>,
         beforeSafeDate |-> buckets.beforeSafeDate,
         onSafeDate |-> buckets.onSafeDate,
         onDeadline |-> buckets.onDeadline,
         afterDeadline |-> buckets.afterDeadline,
         stillIncompleteAfterDeadline |-> ForEachIncomplete(ts, currentDate, 0)]

\* completionRate is the quotient (completedCount / totalTasks) * 100; it is
\* kept as the pair numerator, denominator
getTaskStats(ts, currentDate) ==
    LET IsCompleted(task) == task.completed
        completedTasks == SelectSeq(ts, IsCompleted)
        totalTasks == Len(ts)
        completedCount == Len(completedTasks)
        buckets == ForEachCompleted(completedTasks, NoBuckets)
    IN  [totalTasks |-> totalTasks,
         completedCount |-> completedCount,
         completionRate |-> IF totalTasks # 0
                            THEN <<completedCount * 100, totalTasks>>
                            ELSE <<0, 1>>,
         beforeSafeDate |-> buckets.beforeSafeDate,
         onSafeDate |-> buckets.onSafeDate,
         onDeadline |-> buckets.onDeadline,
         afterDeadline |-> buckets.afterDeadline,
         stillIncompleteAfterDeadline |-> ForEachIncomplete(ts, currentDate, 0)]

\* no Stats screen is mounted
NoStats == [totalTasks |-> undefined]

----------------------------------------------------------------------------
(* Persisted store *)

\* Date.prototype.toJSON: the ISO-8601 text of the instant, to the millisecond
toISOString(date) == [iso |-> date]

\* new Date(text) of an ISO-8601 text
NewDate(text) == text.iso

\* JSON.stringify of one task: dates become text, a key whose value is
\* undefined is left out
TaskToJSON(task) ==
    LET base == [id |-> task.id, name |-> task.name,
                 description |-> task.description,
                 deadlineDate |-> toISOString(task.deadlineDate),
                 safeDate |-> toISOString(task.safeDate),
                 completed |-> task.completed]
    IN  IF task.completionDate = undefined
        THEN base
        ELSE [id |-> task.id, name |-> task.name,
              description |-> task.description,
              deadlineDate |-> toISOString(task.deadlineDate),
              safeDate |-> toISOString(task.safeDate),
              completed |-> task.completed,
              completionDate |-> toISOString(task.completionDate)]

JSONstringify(tasksToSave) ==
    [kind |-> "json",
     body |-> [i \in 1..Len(tasksToSave) |-> TaskToJSON(tasksToSave[i])]]

\* getItem of a key that was never written
null == [kind |-> "null", body |-> <<>>]

\* a stored text that JSON.parse rejects
garbage == [kind |-> "garbage", body |-> <<>>]

\* the callback of loadTasks without the revival of completionDate
ReviveTaskWithoutCompletionDate(task) ==
    [id |-> task.id, name |-> task.name, description |-> task.description,
     completed |-> task.completed,
     deadlineDate |-> NewDate(task.deadlineDate),
     safeDate |-> NewDate(task.safeDate),
     completionDate |-> undefined]

\* the callback of JSON.parse(storedTasks).map in loadTasks
ReviveTask(task) ==
    [id |-> task.id, name |-> task.name, description |-> task.description,
     completed |-> task.completed,
     deadlineDate |-> NewDate(task.deadlineDate),
     safeDate |-> NewDate(task.safeDate),
     completionDate |-> IF "completionDate" \in DOMAIN task
                        THEN NewDate(task.completionDate)
                        ELSE undefined]

\* loadTasks raising the alert in its else branch too
LoadOutcomeAlertsOnMissing(resp) ==
    IF resp.status = "error"
    THEN [tasks |-> <<>>, alert |-> TRUE]
    ELSE IF resp.value.kind \in {"null", "garbage"}
    THEN [tasks |-> <<>>, alert |-> TRUE]
    ELSE [tasks |-> [i \in 1..Len(resp.value.body) |->
                        ReviveTask(resp.value.body[i])],
          alert |-> FALSE]

\* loadTasks with a catch block that swallows the parse error
LoadOutcomeSilent(resp) ==
    IF resp.status = "error"
    THEN [tasks |-> <<>>, alert |-> TRUE]
    ELSE IF resp.value.kind \in {"null", "garbage"}
    THEN [tasks |-> <<>>, alert |-> FALSE]
    ELSE [tasks |-> [i \in 1..Len(resp.value.body) |->
                        ReviveTask(resp.value.body[i])],
          alert |-> FALSE]

\* What loadTasks passes to setTasks and whether it alerts, given the
\* outcome of the awaited getItem
LoadOutcome(resp) ==
    IF resp.status = "error"
    THEN [tasks |-> <<>>, alert |-> TRUE]
    ELSE IF resp.value.kind = "null"
    THEN [tasks |-> <<>>, alert |-> FALSE]
    ELSE IF resp.value.kind = "garbage"
    THEN [tasks |-> <<>>, alert |-> TRUE]
    ELSE [tasks |-> [i \in 1..Len(resp.value.body) |->
                        ReviveTask(resp.value.body[i])],
          alert |-> FALSE]

NoResp == [status |-> "none", value |-> null]

\* the call of AsyncStorage.setItem made by saveTasks
saveTasks(q, tasksToSave) ==
    Append(q, [op |-> "setItem", value |-> JSONstringify(tasksToSave)])

----------------------------------------------------------------------------
(* Task collection *)

\* obj.key of an object that may lack the key
Field(obj, key) == IF key \in DOMAIN obj THEN obj[key] ELSE undefined

\* the object literal built by handleAddTask: no completed, no completionDate
NewTask(id, name, description, deadlineDate, safeDate) ==
    [id |-> id, name |-> name, description |-> description,
     deadlineDate |-> deadlineDate, safeDate |-> safeDate]

\* { ...obj, completed }: every key of obj, and completed
SpreadWithCompleted(obj, completed) ==
    [id |-> obj.id, name |-> obj.name, description |-> obj.description,
     deadlineDate |-> obj.deadlineDate, safeDate |-> obj.safeDate,
     completed |-> completed,
     completionDate |-> Field(obj, "completionDate")]

\* addTask putting the new task in front: [task, ...tasks]
addTaskInFront(ts, task) == <<SpreadWithCompleted(task, FALSE)>> \o ts

\* addTask: task.completed = false; [...tasks, task]
addTask(ts, task) == Append(ts, SpreadWithCompleted(task, FALSE))

\* editTask: tasks.map over every task carrying the id
editTask(ts, updatedTask) ==
    [i \in 1..Len(ts) |->
        IF ts[i].id = updatedTask.id
        THEN SpreadWithCompleted(updatedTask, ts[i].completed)
        ELSE ts[i]]

\* deleteTask: tasks.filter((task) => task.id !== taskId)
deleteTask(ts, taskId) ==
    LET Keep(task) == task.id # taskId IN SelectSeq(ts, Keep)

\* markAsCompleted: tasks.map
markAsCompleted(ts, id, currentDate) ==
    [i \in 1..Len(ts) |->
        IF ts[i].id = id
        THEN [ts[i] EXCEPT !.completed = TRUE, !.completionDate = currentDate]
        ELSE ts[i]]

\* restoreTask: tasks.map
restoreTask(ts, id) ==
    [i \in 1..Len(ts) |->
        IF ts[i].id = id
        THEN [ts[i] EXCEPT !.completed = FALSE, !.completionDate = undefined]
        ELSE ts[i]]

\* Alert.alert messages: 'All fields are required!', 'Notification
\* permission not granted!', 'Failed to load tasks', 'Failed to save tasks'
AlertKinds == {"required", "permission", "load", "save"}

----------------------------------------------------------------------------
(* Initial state: the App component has just mounted *)

\* Two tasks saved by an earlier session.  The first was created when the
\* wall clock read 5:00 of day 0; the second when it read Day(1), a reading
\* the clock gives again in this session, and was completed on day 4.
StoredActive ==
    [id |-> 5 * MsPerHour, name |-> "Old", description |-> "d",
     deadlineDate |-> Day(10), safeDate |-> Day(5),
     completed |-> FALSE, completionDate |-> undefined]

StoredCompleted ==
    [id |-> Day(1), name |-> "Done", description |-> "d",
     deadlineDate |-> Day(10), safeDate |-> Day(5),
     completed |-> TRUE, completionDate |-> Day(4)]

StoredTasks == <<StoredActive, StoredCompleted>>

\* what AsyncStorage holds when the app starts: nothing, a text that is not
\* JSON, or the collection an earlier session saved
InitialStores == {null, garbage, JSONstringify(StoredTasks)}

Init ==
    /\ tasks = <<>>
    /\ currentScreen = "TaskList"
    /\ selectedTask = <<>>
    /\ initPc = "setup"
    /\ store \in InitialStores
    /\ queue = <<>>
    /\ loadResp = NoResp
    /\ alerts = {}
    /\ notifications = <<>>
    /\ stats = NoStats
    /\ ops = 0
    /\ deleted = {}

----------------------------------------------------------------------------
(* Startup: useEffect, initializeNotifications, loadTasks *)

\* createChannel and requestPermission have settled; loadTasks is called and
\* dispatches its getItem
initializeNotifications ==
    /\ initPc = "setup"
    /\ \E outcome \in {"granted", "denied", "throws"} :
          alerts' = IF outcome = "denied" THEN {"permission"} ELSE {}
    /\ queue' = Append(queue, [op |-> "getItem", value |-> null])
    /\ initPc' = "loading"
    /\ notifications' = <<>>
    /\ UNCHANGED <<tasks, currentScreen, selectedTask, store, loadResp, stats,
                   ops, deleted>>

\* the continuation of loadTasks after the awaited getItem
loadTasks ==
    /\ initPc = "loading"
    /\ loadResp.status # "none"
    /\ LET outcome == LoadOutcome(loadResp) IN
         /\ tasks' = outcome.tasks
         /\ alerts' = IF outcome.alert THEN {"load"} ELSE {}
    /\ \E now \in Clock :
          stats' = IF currentScreen = "Stats" THEN getTaskStats(tasks', now)
                   ELSE stats
    /\ initPc' = "ready"
    /\ notifications' = <<>>
    /\ UNCHANGED <<currentScreen, selectedTask, store, queue, ops, loadResp, deleted>>

----------------------------------------------------------------------------
(* AsyncStorage: executes the dispatched operations in order *)

setItemResolves ==
    /\ queue # <<>>
    /\ Head(queue).op = "setItem"
    /\ store' = Head(queue).value
    /\ queue' = Tail(queue)
    /\ alerts' = {}
    /\ notifications' = <<>>
    /\ UNCHANGED <<tasks, currentScreen, selectedTask, initPc, loadResp, stats,
                   ops, deleted>>

\* a catch block of saveTasks that rolls the collection back to what the
\* store holds
setItemRejectsRollback ==
    /\ queue # <<>>
    /\ Head(queue).op = "setItem"
    /\ alerts' = {"save"}
    /\ queue' = Tail(queue)
    /\ tasks' = LoadOutcome([status |-> "value", value |-> store]).tasks
    /\ notifications' = <<>>
    /\ UNCHANGED <<currentScreen, selectedTask, initPc, store, loadResp,
                   stats, ops, deleted>>

\* the catch block of saveTasks
setItemRejects ==
    /\ queue # <<>>
    /\ Head(queue).op = "setItem"
    /\ alerts' = {"save"}
    /\ queue' = Tail(queue)
    /\ notifications' = <<>>
    /\ UNCHANGED <<tasks, currentScreen, selectedTask, initPc, store, loadResp,
                   stats, ops, deleted>>

getItemResolves ==
    /\ queue # <<>>
    /\ Head(queue).op = "getItem"
    /\ loadResp' = [status |-> "value", value |-> store]
    /\ queue' = Tail(queue)
    /\ alerts' = {}
    /\ notifications' = <<>>
    /\ UNCHANGED <<tasks, currentScreen, selectedTask, initPc, store, stats, ops, deleted>>

getItemRejects ==
    /\ queue # <<>>
    /\ Head(queue).op = "getItem"
    /\ loadResp' = [status |-> "error", value |-> null]
    /\ queue' = Tail(queue)
    /\ alerts' = {}
    /\ notifications' = <<>>
    /\ UNCHANGED <<tasks, currentScreen, selectedTask, initPc, store, stats, ops, deleted>>

----------------------------------------------------------------------------
(* Screens *)

\* navigate(screen, params): setSelectedTask(params); setCurrentScreen(screen)
navigate(screen, params) ==
    /\ selectedTask' = params
    /\ currentScreen' = screen

\* the rows of TaskListScreen: tasks.filter((task) => !task.completed)
Displayed == {i \in 1..Len(tasks) : ~tasks[i].completed}

\* the rows of CompletedTasksScreen: tasks.filter(task => task.completed)
DisplayedCompleted == {i \in 1..Len(tasks) : tasks[i].completed}

pressStats ==
    /\ currentScreen = "TaskList"
    /\ navigate("Stats", <<>>)
    /\ \E now \in Clock : stats' = getTaskStats(tasks, now)
    /\ alerts' = {}
    /\ notifications' = <<>>
    /\ UNCHANGED <<tasks, initPc, store, queue, loadResp, ops, deleted>>

pressViewCompleted ==
    /\ currentScreen = "TaskList"
    /\ navigate("CompletedTasks", <<>>)
    /\ alerts' = {}
    /\ notifications' = <<>>
    /\ UNCHANGED <<tasks, initPc, store, queue, loadResp, stats, ops, deleted>>

pressAddTask ==
    /\ currentScreen = "TaskList"
    /\ navigate("AddTask", <<>>)
    /\ alerts' = {}
    /\ notifications' = <<>>
    /\ UNCHANGED <<tasks, initPc, store, queue, loadResp, stats, ops, deleted>>

pressEdit ==
    /\ currentScreen = "TaskList"
    /\ \E i \in Displayed : navigate("EditTask", <<tasks[i]>>)
    /\ alerts' = {}
    /\ notifications' = <<>>
    /\ UNCHANGED <<tasks, initPc, store, queue, loadResp, stats, ops, deleted>>

pressBack ==
    /\ currentScreen # "TaskList"
    /\ navigate("TaskList", <<>>)
    /\ stats' = NoStats
    /\ alerts' = {}
    /\ notifications' = <<>>
    /\ UNCHANGED <<tasks, initPc, store, queue, loadResp, ops, deleted>>

----------------------------------------------------------------------------
(* Lifecycle handlers *)

\* handleAddTask with a field left empty
handleAddTaskRejected ==
    /\ currentScreen \in {"AddTask", "EditTask"}
    /\ "" \in Names \cup Descriptions
    /\ alerts' = {"required"}
    /\ notifications' = <<>>
    /\ UNCHANGED <<tasks, currentScreen, selectedTask, initPc, store, queue,
                   loadResp, stats, ops, deleted>>

\* handleAddTask of the AddTask screen: the addTask prop is addTask
handleAddTask ==
    /\ currentScreen = "AddTask"
    /\ ops < MaxOps
    /\ Len(tasks) < MaxTasks
    /\ \E name \in Names \ {""}, description \in Descriptions \ {""},
          dates \in FormDates, now \in Clock,
          r1 \in HandlerRejectPoints, r2 \in HandlerRejectPoints :
          LET newTask == NewTask(now, name, description, dates[1], dates[2])
              newTasks == addTask(tasks, newTask)
          IN  /\ tasks' = newTasks
              /\ queue' = saveTasks(queue, newTasks)
              /\ notifications' =
                    <<scheduleNotifications(newTask, now, r1),
                      scheduleNotifications(newTask, now, r2)>>
    /\ navigate("TaskList", <<>>)
    /\ ops' = ops + 1
    /\ alerts' = {}
    /\ UNCHANGED <<initPc, store, loadResp, stats, deleted>>

\* handleAddTask of the EditTask screen that schedules only when a date of the
\* task has changed
handleEditTaskDeduped ==
    /\ currentScreen = "EditTask"
    /\ selectedTask # <<>>
    /\ ops < MaxOps
    /\ \E name \in Names \ {""}, description \in Descriptions \ {""},
          dates \in FormDates, now \in Clock,
          r1 \in HandlerRejectPoints, r2 \in HandlerRejectPoints :
          LET newTask == NewTask(selectedTask[1].id, name, description,
                                 dates[1], dates[2])
              newTasks == editTask(tasks, newTask)
          IN  /\ tasks' = newTasks
              /\ queue' = saveTasks(queue, newTasks)
              /\ notifications' =
                    IF /\ dates[1] = selectedTask[1].deadlineDate
                       /\ dates[2] = selectedTask[1].safeDate
                    THEN <<>>
                    ELSE <<scheduleNotifications(newTask, now, r1),
                           scheduleNotifications(newTask, now, r2)>>
    /\ navigate("TaskList", <<>>)
    /\ ops' = ops + 1
    /\ alerts' = {}
    /\ UNCHANGED <<initPc, store, loadResp, stats, deleted>>

\* handleAddTask of the EditTask screen: the addTask prop is editTask and
\* initialValues is selectedTask
handleEditTask ==
    /\ currentScreen = "EditTask"
    /\ selectedTask # <<>>
    /\ ops < MaxOps
    /\ \E name \in Names \ {""}, description \in Descriptions \ {""},
          dates \in FormDates, now \in Clock,
          r1 \in HandlerRejectPoints, r2 \in HandlerRejectPoints :
          LET newTask == NewTask(selectedTask[1].id, name, description,
                                 dates[1], dates[2])
              newTasks == editTask(tasks, newTask)
          IN  /\ tasks' = newTasks
              /\ queue' = saveTasks(queue, newTasks)
              /\ notifications' =
                    <<scheduleNotifications(newTask, now, r1),
                      scheduleNotifications(newTask, now, r2)>>
    /\ navigate("TaskList", <<>>)
    /\ ops' = ops + 1
    /\ alerts' = {}
    /\ UNCHANGED <<initPc, store, loadResp, stats, deleted>>

pressComplete ==
    /\ currentScreen = "TaskList"
    /\ ops < MaxOps
    /\ \E i \in Displayed, now \in Clock :
          LET updatedTasks == markAsCompleted(tasks, tasks[i].id, now)
          IN  /\ tasks' = updatedTasks
              /\ queue' = saveTasks(queue, updatedTasks)
    /\ ops' = ops + 1
    /\ alerts' = {}
    /\ notifications' = <<>>
    /\ UNCHANGED <<currentScreen, selectedTask, initPc, store, loadResp, stats, deleted>>

pressRestore ==
    /\ currentScreen = "CompletedTasks"
    /\ ops < MaxOps
    /\ \E i \in DisplayedCompleted :
          LET updatedTasks == restoreTask(tasks, tasks[i].id)
          IN  /\ tasks' = updatedTasks
              /\ queue' = saveTasks(queue, updatedTasks)
    /\ ops' = ops + 1
    /\ alerts' = {}
    /\ notifications' = <<>>
    /\ UNCHANGED <<currentScreen, selectedTask, initPc, store, loadResp, stats, deleted>>

pressDelete ==
    /\ currentScreen = "TaskList"
    /\ ops < MaxOps
    /\ \E i \in Displayed :
          LET updatedTasks == deleteTask(tasks, tasks[i].id)
          IN  /\ tasks' = updatedTasks
              /\ queue' = saveTasks(queue, updatedTasks)
              /\ deleted' = deleted \cup {tasks[i].id}
    /\ ops' = ops + 1
    /\ alerts' = {}
    /\ notifications' = <<>>
    /\ UNCHANGED <<currentScreen, selectedTask, initPc, store, loadResp, stats>>

----------------------------------------------------------------------------
Next ==
    \/ initializeNotifications
    \/ loadTasks
    \/ setItemResolves
    \/ setItemRejects
    \/ getItemResolves
    \/ getItemRejects
    \/ pressStats
    \/ pressViewCompleted
    \/ pressAddTask
    \/ pressEdit
    \/ pressBack
    \/ handleAddTaskRejected
    \/ handleAddTask
    \/ handleEditTask
    \/ pressComplete
    \/ pressRestore
    \/ pressDelete

Spec == Init /\ [][Next]_vars

----------------------------------------------------------------------------
(* scheduleNotifications as a function of the task and the clock *)

SchedClock == {Day(1), Day(4) + 9 * MsPerHour, Day(9) + 12 * MsPerHour,
               Day(10) + MsPerHour}

SchedDeadlines == {Day(1), Day(5), Day(10)}

SchedSafeDates == {Day(1), Day(5), Day(12)}

\* one run of scheduleNotifications on any task, at any reading of the clock,
\* with any outcome of the platform
scheduleCall ==
    /\ \E deadlineDate \in SchedDeadlines, safeDate \in SchedSafeDates,
          now \in SchedClock, rejectAt \in RejectPoints :
          notifications' =
              <<scheduleNotifications(
                    NewTask(now, "Write report", "d", deadlineDate, safeDate),
                    now, rejectAt)>>
    /\ UNCHANGED <<tasks, currentScreen, selectedTask, initPc, store, queue,
                   loadResp, alerts, stats, ops, deleted>>

SchedInit ==
    /\ tasks = <<>>
    /\ currentScreen = "TaskList"
    /\ selectedTask = <<>>
    /\ initPc = "ready"
    /\ store = null
    /\ queue = <<>>
    /\ loadResp = NoResp
    /\ alerts = {}
    /\ notifications = <<>>
    /\ stats = NoStats
    /\ ops = 0
    /\ deleted = {}

SchedNext == scheduleCall

SchedSpec == SchedInit /\ [][SchedNext]_vars

----------------------------------------------------------------------------
(* getTaskStats as a function of the collection *)

MaxStatsTasks == 2

StatsDates == {Day(1), Day(4), Day(10)}

CompletionDates == {Day(4), Day(4) + 9 * MsPerHour}

\* the tasks a collection can hold: active ones, completed ones with their
\* completion date, and completed ones that have lost it
StatsTasks ==
    { [id |-> 1, name |-> "Write report", description |-> "d",
       deadlineDate |-> dl, safeDate |-> sf,
       completed |-> c[1], completionDate |-> c[2]] :
         dl \in StatsDates, sf \in StatsDates,
         c \in {<<FALSE, undefined>>, <<TRUE, undefined>>}
               \cup {<<TRUE, cd>> : cd \in CompletionDates} }

StatsCollections ==
    UNION { [1..n -> StatsTasks] : n \in 0..MaxStatsTasks }

StatsInit ==
    /\ tasks \in StatsCollections
    /\ currentScreen = "TaskList"
    /\ selectedTask = <<>>
    /\ initPc = "ready"
    /\ store = null
    /\ queue = <<>>
    /\ loadResp = NoResp
    /\ alerts = {}
    /\ notifications = <<>>
    /\ stats = NoStats
    /\ ops = 0
    /\ deleted = {}

StatsNext == pressStats \/ pressBack

StatsSpec == StatsInit /\ [][StatsNext]_vars

----------------------------------------------------------------------------
(* The specification in which AsyncStorage never fails: every dispatched     *)
(* setItem and getItem resolves                                             *)

ReliableNext ==
    \/ initializeNotifications
    \/ loadTasks
    \/ setItemResolves
    \/ getItemResolves
    \/ pressStats
    \/ pressViewCompleted
    \/ pressAddTask
    \/ pressEdit
    \/ pressBack
    \/ handleAddTaskRejected
    \/ handleAddTask
    \/ handleEditTask
    \/ pressComplete
    \/ pressRestore
    \/ pressDelete

ReliableStoreSpec == Init /\ [][ReliableNext]_vars

----------------------------------------------------------------------------
(* Properties *)

TaskIndices == 1..Len(tasks)

\* the handleAddTask step of the AddTask screen (a task is added)
IsAddStep == currentScreen = "AddTask" /\ ops' = ops + 1

\* the handleAddTask step of the EditTask screen (a task is edited)
IsEditStep == currentScreen = "EditTask" /\ ops' = ops + 1

\* C1: in every reachable state every task of the collection has completed
\* true if and only if its completionDate is set.
C1_CompletedIffCompletionDate ==
    \A i \in TaskIndices :
        tasks[i].completed <=> tasks[i].completionDate # undefined

\* C2: an edit leaves the id, the completed flag and the completionDate of
\* every task carrying the edited id exactly as they were.
C2_EditKeepsIdAndCompletion ==
    [][IsEditStep =>
         /\ Len(tasks') = Len(tasks)
         /\ \A i \in TaskIndices :
               tasks[i].id = selectedTask[1].id =>
                  /\ tasks'[i].id = tasks[i].id
                  /\ tasks'[i].completed = tasks[i].completed
                  /\ tasks'[i].completionDate = tasks[i].completionDate]_vars

\* C3: in every reachable state the ids of the tasks of the collection are
\* pairwise distinct, whatever the clock read when they were added.
C3_IdsPairwiseDistinct ==
    \A i \in TaskIndices : \A j \in TaskIndices :
        i # j => tasks[i].id # tasks[j].id

\* the number of createTriggerNotification calls made by the last step
RECURSIVE TotalCalls(_)
TotalCalls(batches) ==
    IF batches = <<>> THEN 0
    ELSE Len(Head(batches).calls) + TotalCalls(Tail(batches))

Timestamps(batch) == [i \in 1..Len(batch.calls) |-> batch.calls[i].timestamp]

BatchOK(batch) ==
    LET daysLeft == getRemainingDays(batch.task.deadlineDate, batch.now)
        midnight == batch.now - (batch.now % MsPerDay)
    IN  IF daysLeft > 0
        THEN Timestamps(batch) =
                <<midnight + 8 * MsPerHour, midnight + 12 * MsPerHour,
                  midnight + 18 * MsPerHour,
                  batch.task.safeDate, batch.task.deadlineDate>>
        ELSE Timestamps(batch) =
                <<batch.task.safeDate, batch.task.deadlineDate>>

\* C4: one call of schedule emits exactly five requests when daysLeft > 0
\* (08:00, 12:00 and 18:00 of now's date, then the safe date and the
\* deadline) and exactly two (safe date, deadline) when daysLeft <= 0.
C4_FiveOrTwoRequests ==
    \A k \in 1..Len(notifications) : BatchOK(notifications[k])

\* C5: one add through the form hands exactly one batch to the platform,
\* five requests in all when nine days remain, and an add to the empty
\* collection leaves totalTasks = 1 and completedCount = 0.
C5_AddEmitsOneBatch ==
    [][IsAddStep =>
         /\ Len(notifications') = 1
         /\ getRemainingDays(notifications'[1].task.deadlineDate,
                             notifications'[1].now) = 9
               => TotalCalls(notifications') = 5
         /\ tasks = <<>> =>
               /\ getTaskStats(tasks', Day(1)).totalTasks = 1
               /\ getTaskStats(tasks', Day(1)).completedCount = 0]_vars

\* the completed tasks that carry a completion date
Dated ==
    {i \in TaskIndices :
        tasks[i].completed /\ tasks[i].completionDate # undefined}

\* the day-level difference between the two instants is zero
SameDay(a, b) == a - b < MsPerDay /\ b - a < MsPerDay

InBeforeSafeDate(t) == t.completionDate < t.safeDate

InOnSafeDate(t) ==
    ~InBeforeSafeDate(t) /\ SameDay(t.completionDate, t.safeDate)

InOnDeadline(t) ==
    /\ ~InBeforeSafeDate(t)
    /\ ~InOnSafeDate(t)
    /\ SameDay(t.completionDate, t.deadlineDate)

InAfterDeadline(t) ==
    /\ ~InBeforeSafeDate(t)
    /\ ~InOnSafeDate(t)
    /\ ~InOnDeadline(t)
    /\ t.completionDate > t.deadlineDate

\* C6: the Stats screen counts every completed task that has a completion
\* date in at most one bucket, the first that matches in the order
\* beforeSafeDate, onSafeDate, onDeadline, afterDeadline.
C6_BucketsFirstMatchWins ==
    currentScreen = "Stats" =>
        /\ stats.beforeSafeDate =
              Cardinality({i \in Dated : InBeforeSafeDate(tasks[i])})
        /\ stats.onSafeDate =
              Cardinality({i \in Dated : InOnSafeDate(tasks[i])})
        /\ stats.onDeadline =
              Cardinality({i \in Dated : InOnDeadline(tasks[i])})
        /\ stats.afterDeadline =
              Cardinality({i \in Dated : InAfterDeadline(tasks[i])})
        /\ stats.beforeSafeDate + stats.onSafeDate + stats.onDeadline
              + stats.afterDeadline <= Cardinality(Dated)

\* a collection with one task, completed exactly on its safe date, which is
\* also its deadline: it is counted on the safe date and not on the deadline
C6_Witness ==
    /\ currentScreen = "Stats"
    /\ Len(tasks) = 1
    /\ tasks[1].completed
    /\ tasks[1].completionDate = tasks[1].safeDate
    /\ tasks[1].safeDate = tasks[1].deadlineDate
    /\ stats.onSafeDate = 1
    /\ stats.onDeadline = 0

\* C7: when loadTasks reads a stored text that cannot be parsed, it sets the
\* collection to empty and raises the load-failure alert.
C7_UnparseableLoadEmptiesAndAlerts ==
    [][(/\ initPc = "loading"
        /\ initPc' = "ready"
        /\ loadResp.status = "value"
        /\ loadResp.value.kind = "garbage")
       => (tasks' = <<>> /\ "load" \in alerts')]_vars

\* loadTasks has read an unparseable text: the collection is empty and the
\* alert is up
C7_Witness ==
    /\ initPc = "ready"
    /\ loadResp.status = "value"
    /\ loadResp.value.kind = "garbage"
    /\ tasks = <<>>
    /\ alerts = {"load"}

\* a step in which AsyncStorage finishes the oldest dispatched setItem
IsWriteStep ==
    /\ queue # <<>>
    /\ Head(queue).op = "setItem"
    /\ queue' = Tail(queue)

\* C8: a failing persistence write leaves the in-memory collection as the
\* handlers made it, alerts the user and leaves the store as it was; the
\* store changes only when a write succeeds.
C8_SaveFailureKeepsMemory ==
    [][/\ (IsWriteStep /\ "save" \in alerts')
             => (tasks' = tasks /\ store' = store)
       /\ (IsWriteStep /\ store' # Head(queue).value) => "save" \in alerts'
       /\ store' # store
             => (IsWriteStep /\ store' = Head(queue).value
                 /\ "save" \notin alerts')]_vars

\* a write has just failed: the alert is up, the collection holds a task the
\* store does not
C8_Witness ==
    /\ alerts = {"save"}
    /\ tasks # <<>>
    /\ store = null

\* C9: once nothing is in flight, the store holds the in-memory collection
\* (loading it would give back the collection).
C9_StoreMirrorsMemory ==
    (initPc = "ready" /\ queue = <<>>)
        => LoadOutcome([status |-> "value", value |-> store]).tasks = tasks

\* C10: every batch contains the request at the safe date and the request at
\* the deadline, whatever the platform answered to the earlier calls.
C10_SafeAndDeadlineAlwaysEmitted ==
    \A k \in 1..Len(notifications) :
        LET batch == notifications[k] IN
            /\ \E c \in 1..Len(batch.calls) :
                  /\ batch.calls[c].body = "is due today"
                  /\ batch.calls[c].timestamp = batch.task.safeDate
            /\ \E c \in 1..Len(batch.calls) :
                  /\ batch.calls[c].title = "Task Deadline Reminder"
                  /\ batch.calls[c].timestamp = batch.task.deadlineDate

\* C11: an edit whose id is carried by no task of the collection changes
\* nothing: the collection stays as it is and no notification request is made.
C11_EditAbsentIdIsNoOp ==
    [][(IsEditStep /\ \A i \in TaskIndices : tasks[i].id # selectedTask[1].id)
          => (tasks' = tasks /\ notifications' = <<>>)]_vars

\* C12: once deleteTask has been applied to an id, no task carrying that id is
\* in the collection in any later state, however the startup load and the
\* pending writes interleave.
C12_DeletedIdNeverPresent ==
    \A i \in TaskIndices : tasks[i].id \notin deleted

\* C13: markAsCompleted followed by restoreTask on the id of a displayed task
\* leaves that task not completed, without completionDate and with its other
\* fields as they were, and leaves every other task of the collection as it
\* was.
C13_CompleteThenRestore ==
    \A i \in Displayed, now \in Clock :
        LET id == tasks[i].id
            after == restoreTask(markAsCompleted(tasks, id, now), id)
        IN  /\ Len(after) = Len(tasks)
            /\ after[i].completed = FALSE
            /\ after[i].completionDate = undefined
            /\ \A key \in {"id", "name", "description", "safeDate",
                           "deadlineDate"} : after[i][key] = tasks[i][key]
            /\ \A j \in TaskIndices \ {i} : after[j] = tasks[j]

\* C14: the completion rate the Stats screen renders is 0 for the empty
\* collection and otherwise 100 * completedCount / totalTasks, so it lies
\* between 0 and 100 (the rate is the fraction rate[1] / rate[2]).
C14_CompletionRate ==
    currentScreen = "Stats" =>
        LET rate == stats.completionRate
            completedCount ==
                Cardinality({i \in TaskIndices : tasks[i].completed})
        IN  /\ rate[2] > 0
            /\ tasks = <<>> => rate[1] = 0
            /\ tasks # <<>>
                  => rate[1] * Len(tasks) = 100 * completedCount * rate[2]
            /\ 0 <= rate[1]
            /\ rate[1] <= 100 * rate[2]

\* the Stats screen shows a rate strictly between 0 and 100
C14_Witness ==
    /\ currentScreen = "Stats"
    /\ Len(tasks) = 2
    /\ tasks[1].completed
    /\ ~tasks[2].completed
    /\ stats.completionRate = <<100, 2>>

\* C15: an add appends exactly one task, at the end, not completed and
\* carrying the submitted fields; the tasks that were in the collection stay
\* as they were and in the same order.
C15_AddAppendsOneActiveTask ==
    [][IsAddStep =>
         /\ Len(tasks') = Len(tasks) + 1
         /\ SubSeq(tasks', 1, Len(tasks)) = tasks
         /\ tasks'[Len(tasks')].completed = FALSE
         /\ tasks'[Len(tasks')].completionDate = undefined
         /\ \A k \in 1..Len(notifications') :
               LET task == notifications'[k].task IN
                   \A key \in DOMAIN task :
                       tasks'[Len(tasks')][key] = task[key]]_vars

\* a task has just been added behind the two loaded ones
C15_Witness ==
    /\ ops = 1
    /\ Len(tasks) = 3
    /\ SubSeq(tasks, 1, 2) = StoredTasks
    /\ ~tasks[3].completed
    /\ notifications # <<>>
    /\ notifications[1].task.id = tasks[3].id

\* C16: the requests handed to the platform are only ever added to.  A
\* complete, a restore or a delete hands over no request; every add and every
\* edit hands over requests for the submitted task, whatever was handed over
\* before for the same task.
C16_RequestsOnlyAdded ==
    [][ops' = ops + 1 =>
         IF currentScreen \in {"AddTask", "EditTask"}
         THEN /\ notifications' # <<>>
              /\ \A k \in 1..Len(notifications') :
                    LET batch == notifications'[k] IN
                        /\ batch.calls # <<>>
                        /\ IsEditStep => batch.task.id = selectedTask[1].id
                        /\ IsAddStep
                              => batch.task.id = tasks'[Len(tasks')].id
                        /\ \A c \in 1..Len(batch.calls) :
                              batch.calls[c].name = batch.task.name
         ELSE notifications' = <<>>]_vars

\* an edit has just handed over requests for a task whose dates it did not
\* change, on top of the ones its add had handed over
C16_Witness ==
    /\ ops = 2
    /\ loadResp.status = "value"
    /\ loadResp.value = null
    /\ initPc = "ready"
    /\ Len(tasks) = 1
    /\ notifications # <<>>
    /\ notifications[1].task.id = tasks[1].id
    /\ notifications[1].task.deadlineDate = Day(10)
    /\ notifications[1].now = tasks[1].id

\* C17: daysLeft is the ceiling of the day difference: in every batch, a
\* deadline strictly after the clock reading gives daysLeft >= 1 and the three
\* daily reminders (as far as the platform lets the batch go), and
\* daysLeft <= 0 is found only when the deadline is not after the reading.
C17_DaysLeftIsCeiling ==
    \A k \in 1..Len(notifications) :
        LET batch == notifications[k]
            future == isAfter(batch.task.deadlineDate, batch.now)
        IN  \A c \in 1..Len(batch.calls) :
                /\ future => batch.calls[c].daysLeft >= 1
                /\ future => (c <= 3 => batch.calls[c].body = "is due in")
                /\ batch.calls[c].daysLeft <= 0 => ~future

\* the step in which loadTasks applies what getItem returned
IsLoadStep == initPc = "loading" /\ initPc' = "ready"

\* once loadTasks has run, no further read of the store is dispatched
NoRetry ==
    initPc = "ready"
        => /\ initPc' = "ready"
           /\ \A k \in 1..Len(queue') : queue'[k].op # "getItem"

\* C18: when the persisted data is missing or cannot be parsed, loadTasks
\* sets the collection to empty and raises the load-failure alert, and the
\* load is not tried again.
C18_MissingOrUnparseableAlerts ==
    [][/\ (IsLoadStep /\ loadResp.status = "value"
             /\ loadResp.value.kind \in {"null", "garbage"})
          => (tasks' = <<>> /\ "load" \in alerts')
       /\ NoRetry]_vars

\* C18, amended: missing data gives the empty collection without any alert;
\* data that cannot be parsed gives the empty collection and the load-failure
\* alert; in both cases the load is not tried again.
C18_MissingIsSilentUnparseableAlerts ==
    [][/\ (IsLoadStep /\ loadResp.status = "value"
             /\ loadResp.value.kind = "null")
          => (tasks' = <<>> /\ alerts' = {})
       /\ (IsLoadStep /\ loadResp.status = "value"
             /\ loadResp.value.kind = "garbage")
          => (tasks' = <<>> /\ alerts' = {"load"})
       /\ NoRetry]_vars

\* loadTasks has just found no stored data: the collection is empty and no
\* alert is up
C18_Witness ==
    /\ initPc = "ready"
    /\ loadResp.status = "value"
    /\ loadResp.value = null
    /\ tasks = <<>>
    /\ alerts = {}
    /\ ops = 0
    /\ currentScreen = "TaskList"
    /\ selectedTask = <<>>

\* C19: writing the collection and loading what was written gives back the
\* collection: the same tasks in the same order, every field with the value it
\* had, completionDate set exactly when it was set.
C19_PersistLoadRoundTrip ==
    LoadOutcome([status |-> "value", value |-> JSONstringify(tasks)])
        = [tasks |-> tasks, alert |-> FALSE]

\* loadTasks has installed a stored collection holding an active task and a
\* completed one with its completionDate
C19_Witness ==
    /\ initPc = "ready"
    /\ loadResp.status = "value"
    /\ loadResp.value = JSONstringify(tasks)
    /\ store = loadResp.value
    /\ Len(tasks) = 2
    /\ ~tasks[1].completed
    /\ tasks[1].completionDate = undefined
    /\ tasks[2].completed
    /\ tasks[2].completionDate = Day(4)

\* the completed tasks completed at least one full day after the safe date
\* and at least one full day before the deadline
InTheGap ==
    {i \in Dated :
        /\ tasks[i].completionDate - tasks[i].safeDate >= MsPerDay
        /\ tasks[i].deadlineDate - tasks[i].completionDate >= MsPerDay}

\* C20: a completed task completed at least one full day after its safe date
\* and at least one full day before its deadline is counted in completedCount
\* and in no bucket, so the four buckets add up to at most completedCount,
\* which is at most totalTasks.
C20_GapTasksInNoBucket ==
    currentScreen = "Stats" =>
        LET sum == stats.beforeSafeDate + stats.onSafeDate + stats.onDeadline
                      + stats.afterDeadline
        IN  /\ stats.totalTasks = Len(tasks)
            /\ stats.completedCount =
                  Cardinality({i \in TaskIndices : tasks[i].completed})
            /\ sum + Cardinality(InTheGap) <= stats.completedCount
            /\ stats.completedCount <= stats.totalTasks

\* the Stats screen shows one completed task and four empty buckets
C20_Witness ==
    /\ currentScreen = "Stats"
    /\ Len(tasks) = 1
    /\ tasks[1].safeDate = Day(1)
    /\ tasks[1].completionDate = Day(4) + 9 * MsPerHour
    /\ tasks[1].deadlineDate = Day(10)
    /\ stats.completedCount = 1
    /\ stats.beforeSafeDate = 0
    /\ stats.onSafeDate = 0
    /\ stats.onDeadline = 0
    /\ stats.afterDeadline = 0

\* the ids of the tasks of a collection
IdsOf(ts) == {ts[i].id : i \in 1..Len(ts)}

\* C21: no task is lost to the startup race.  When loadTasks applies a stored
\* collection, the tasks added before it are still in the collection next to
\* the stored ones; and a write that succeeds after the store was read leaves
\* in the store every task that was stored at startup and not deleted since.
C21_NoTaskLostToStartupRace ==
    [][/\ (IsLoadStep /\ loadResp.status = "value"
             /\ loadResp.value.kind = "json")
          => /\ IdsOf(tasks) \subseteq IdsOf(tasks')
             /\ IdsOf(loadResp.value.body) \subseteq IdsOf(tasks')
       /\ (IsWriteStep /\ store' # store /\ loadResp.status = "value"
             /\ loadResp.value.kind = "json")
          => (IdsOf(loadResp.value.body) \ deleted)
                \subseteq IdsOf(store'.body)]_vars

====
